---- MODULE Spec2Model ----
(***************************************************************************)
(* TheTVDbClient (src/src/index.js): bearer-token authentication and the   *)
(* authenticate-and-retry request wrapper _doRequest.                      *)
(*                                                                         *)
(* One client instance; up to MaxCalls calls are in flight on it at once.  *)
(* A call is either a direct authenticate(opts) or an endpoint method,     *)
(* which runs _doRequest(makeRequest).  Every `await` of the code is a     *)
(* point where other calls may run: the completion of an outbound request  *)
(* and the continuation that consumes it form one step, and the            *)
(* continuation of `await this.authenticate()` is a step of its own.       *)
(* When a call settles, the reaction of its caller runs before the event   *)
(* loop delivers anything else: a call that is done is returned to its     *)
(* caller before any other step is taken.                                  *)
(*                                                                         *)
(* Spec is the client under concurrent calls.  SpecReq is one call at a    *)
(* time on a client built with or without a default language, with every   *)
(* endpoint method and every shape of the opts argument, and with requests *)
(* built on this.agent directly.  SpecPipe is one call at a time on a      *)
(* client built with any base url, credentials and proxy detection, under  *)
(* a changing process environment.  SpecTwice repeats a call with the same *)
(* arguments, SpecTwo runs the client next to a second instance, and       *)
(* SpecOwn gives each call slot a login token of its own.                  *)
(***************************************************************************)
EXTENDS Naturals, Sequences, FiniteSets

\* Number of calls that may be in flight on the client at the same time.
MaxCalls == 2

Calls == 1..MaxCalls

\* JavaScript values that are not ordinary strings.
Null == "<null>"
Undefined == "<undefined>"
\* A key that an options object does not have.
Absent == "<absent>"

\* Tokens the login endpoint may put in res.body.token; Undefined is a 2xx
\* login response without a token field.
Tokens == {"t1", "t2"}
BodyTokens == Tokens \cup {Undefined}

\* Failures of an outbound request: non-2xx statuses and a transport failure.
ErrorClasses == {"401", "404", "400", "net"}

\* Values of shouldReturnFullResponse.
Bools == {"true", "false"}

\* Languages: the constructor's default and a per-call override.
DefaultLanguages == {"en"}
CallLanguages == {"fr"}

\* The endpoint methods that read opts.language and set Accept-Language to
\* language || ''.
LanguageMethods ==
    {"getSearchSeries", "getSerie", "getSerieEpisodes", "getSerieEpisodesQuery",
     "getSerieFilter", "getSerieImages", "getSerieImagesQuery", "getEpisode"}

\* The endpoint methods that do not read opts.language.
PlainMethods ==
    {"getLanguages", "getLanguage", "getSearchSeriesParams", "getSerieActors",
     "getSerieEpisodesQueryParams", "getSerieEpisodesSummary",
     "getSerieImagesQueryParams", "getUpdatedQuery", "getUpdatedQueryParams"}

\* Every endpoint method; getSerieHead sets Accept-Language to language.
Methods == LanguageMethods \cup PlainMethods \cup {"getSerieHead"}

\* JavaScript truthiness of the values used here.
Truthy(v) == v \notin {Null, Undefined, Absent, "", "false"}

\* Values that settle a call or come back from the transport.
NoValue == [form |-> "none", tok |-> Undefined, n |-> 0, cls |-> ""]
\* The response to the call's n-th outbound request; tok is res.body.token.
Response(n, t) == [form |-> "response", tok |-> t, n |-> n, cls |-> ""]
\* The error with which the call's n-th outbound request failed.
Error(n, cls) == [form |-> "error", tok |-> Undefined, n |-> n, cls |-> cls]
\* A bare token string.
TokenValue(t) == [form |-> "token", tok |-> t, n |-> 0, cls |-> ""]
\* A part of the response to the call's n-th outbound request: form is
\* "data" for res.body.data, "params" for res.body.data.params and "headers"
\* for res.headers.
Part(form, res) == [form |-> form, tok |-> Undefined, n |-> res.n, cls |-> ""]

\* A url is the sequence of its pieces: "/", ":" and the runs of characters
\* between them, so 'https://h/a' is <<"https", ":", "/", "/", "h", "/", "a">>.
DefaultUrl == <<"https", ":", "/", "/", "api.thetvdb.com", "/">>

\* this.auth; Undefined is a credential the constructor was not given.
DefaultAuth == [username |-> Undefined, userkey |-> Undefined, apikey |-> "key"]

\* A request without a body.
NoBody == [username |-> Absent, userkey |-> Absent, apikey |-> Absent]

\* process.env: the four proxy variables, Absent when not in the environment.
EnvNames == {"https_proxy", "HTTPS_PROXY", "http_proxy", "HTTP_PROXY"}
NoEnv == [v \in EnvNames |-> Absent]

\* A request: who built it (0: built on this.agent by the user, or built by
\* the second instance), what it is for, its Authorization and
\* Accept-Language headers (Absent: not set), its url, the proxy it is routed
\* through (Absent: none) and its JSON body.
\* JavaScript values that stand for a time. A Date holds its getTime() in k,
\* in milliseconds; a number holds its value in k, in thousandths, so that
\* seconds with a fraction are exact.
DateOf(ms) == [type |-> "date", k |-> ms]
NumberOf(th) == [type |-> "number", k |-> th]
NaN == [type |-> "nan", k |-> 0]
UndefinedTime == [type |-> "undefined", k |-> 0]
\* A method that takes no query arguments has none.
NoTime == [type |-> "none", k |-> 0]
NoArgs == [fromTime |-> NoTime, toTime |-> NoTime]
NoQuery == [fromTime |-> NoTime, toTime |-> NoTime]

\* x?.getTime?.(): the milliseconds of a Date, undefined for a value that
\* has no getTime.
GetTime(x) == IF x.type = "date" THEN NumberOf(1000 * x.k) ELSE UndefinedTime

\* v / 1000: undefined / 1000 is NaN.
Div1000(v) == IF v.type = "number" THEN NumberOf(v.k \div 1000) ELSE NaN

\* a || b: 0, NaN and undefined are falsy, an object is truthy.
TruthyTime(v) == v.type = "date" \/ (v.type = "number" /\ v.k # 0)
OrTime(a, b) == IF TruthyTime(a) THEN a ELSE b

\* (x?.getTime?.() / 1000) || x
EpochSeconds(x) == OrTime(Div1000(GetTime(x)), x)

\* .query({ fromTime: ..., toTime: ... }) of getUpdatedQuery; the other
\* methods' queries are not looked at.
QueryOf(m, a) ==
    IF m = "getUpdatedQuery"
    THEN [fromTime |-> EpochSeconds(a.fromTime), toTime |-> EpochSeconds(a.toTime)]
    ELSE NoQuery
WithQuery(req, m, a) == [req EXCEPT !.query = QueryOf(m, a)]

NoRequest ==
    [call |-> 0, to |-> "none", verb |-> "", auth |-> Absent, lang |-> Absent,
     url |-> <<>>, proxy |-> Absent, body |-> NoBody, query |-> NoQuery]

VARIABLES
    token,      \* this.token
    opts,       \* this.opts
    loginRes,   \* res.body.token of the latest successful login response
    pc,         \* per call: where the call stands
    kind,       \* per call: "authenticate" or "endpoint"
    callOpts,   \* per call: the opts argument
    hadToken,   \* per call: was a token held when the call started
    trace,      \* per call: what the call has done so far
    caught,     \* per call: err of the catch block of _doRequest
    last,       \* per call: the latest response or error delivered to it
    out,        \* per call: how authenticate() or _doRequest() settled
    method,     \* per call: the endpoint method called
    ret,        \* per call: how the endpoint method settled
    wire,       \* the request sent in the step just taken
    overridden, \* the options a call so far has been given a value for
    url,        \* the url given to the constructor
    shouldDetectProxy,  \* the shouldDetectProxy given to the constructor
    auth,       \* this.auth
    env,        \* process.env
    built,      \* per call: the token its first attempt in flight was built with
    prev,       \* the call that the call now on the client repeats
    other,      \* a second client instance: its token, opts and auth
    args        \* per call: the query arguments of the method

vars == <<token, opts, loginRes, pc, kind, callOpts, hadToken, trace, caught,
          last, out, method, ret, wire, overridden, url, shouldDetectProxy, auth,
          env, built, prev, other, args>>

\* What no method of the client assigns.
elsewhere == <<url, shouldDetectProxy, auth, env, prev, other>>

\* Number of events e in the trace s.
Count(s, e) == Cardinality({i \in DOMAIN s : s[i] = e})

\* Outbound requests a call has sent: the ordinal of the next one is this + 1.
Sent(s) == Count(s, "login") + Count(s, "req")

\* { ...a, ...b }: a key of b replaces that key of a, whatever its value.
Spread(a, b) ==
    [k \in DOMAIN a |-> IF b[k] # Absent THEN b[k] ELSE a[k]]

NoOpts == [shouldReturnFullResponse |-> Absent, language |-> Absent]

\* new Request(verb, url): no header set yet.
NewRequest(c, to, verb) ==
    [call |-> c, to |-> to, verb |-> verb, auth |-> Absent, lang |-> Absent,
     url |-> <<>>, proxy |-> Absent, body |-> NoBody, query |-> NoQuery]

\* s.startsWith(p)
StartsWith(s, p) == Len(p) <= Len(s) /\ SubSeq(s, 1, Len(p)) = p

\* The first position at or after i of s that holds no '/'.
RECURSIVE SlashRun(_, _)
SlashRun(s, i) == IF i <= Len(s) /\ s[i] = "/" THEN SlashRun(s, i + 1) ELSE i

\* s.replace(/([^:]\/)\/+/g, '$1') from position i on: a character other
\* than ':', a '/' and the '/'s that follow it become that character and
\* one '/'; the search goes on after what was matched.
RECURSIVE CollapseFrom(_, _)
CollapseFrom(s, i) ==
    IF i > Len(s) THEN <<>>
    ELSE IF i + 2 <= Len(s) /\ s[i] # ":" /\ s[i + 1] = "/" /\ s[i + 2] = "/"
         THEN <<s[i], "/">> \o CollapseFrom(s, SlashRun(s, i + 1))
         ELSE <<s[i]>> \o CollapseFrom(s, i + 1)
Collapse(s) == CollapseFrom(s, 1)

\* The root url plugin: `${url}/${req.url}` with its slashes collapsed, for
\* a req.url that starts with '/'.
SetRootUrlNoCollapse(req, base) ==
    IF StartsWith(req.url, <<"/">>)
    THEN [req EXCEPT !.url = base \o <<"/">> \o req.url] ELSE req
SetRootUrl(req, base) ==
    IF StartsWith(req.url, <<"/">>)
    THEN [req EXCEPT !.url = Collapse(base \o <<"/">> \o req.url)] ELSE req

\* a || b
Or(a, b) == IF Truthy(a) THEN a ELSE b

\* The proxy plugin, registered when shouldDetectProxy is true.
SetProxy(req, detect, e) ==
    LET r1 == IF /\ StartsWith(req.url, <<"https", ":">>)
                 /\ Truthy(Or(e.https_proxy, e.HTTPS_PROXY))
              THEN [req EXCEPT !.proxy = Or(e.https_proxy, e.HTTPS_PROXY)]
              ELSE req
        r2 == IF /\ StartsWith(r1.url, <<"http", ":">>)
                 /\ Truthy(Or(e.http_proxy, e.HTTP_PROXY))
              THEN [r1 EXCEPT !.proxy = Or(e.http_proxy, e.HTTP_PROXY)]
              ELSE r1
    IN  IF detect THEN r2 ELSE req

\* The root url plugin and the proxy plugin, in the order of their
\* agent.use().
RouteProxyFirst(req, base, detect, e) ==
    CHOOSE r \in {SetRootUrl(q, base) : q \in {SetProxy(req, detect, e)}} : TRUE
Route(req, base, detect, e) ==
    CHOOSE r \in {SetProxy(q, detect, e) : q \in {SetRootUrl(req, base)}} : TRUE

\* .send({ ...this.auth }) as JSON: a key whose value is undefined is left out.
LoginBodyEmpty(a) == NoBody
LoginBody(a) == [k \in DOMAIN a |-> IF a[k] = Undefined THEN Absent ELSE a[k]]

\* The paths the client asks for: all start with '/'.
LoginPath == <<"/", "login">>
TargetPath(m) == <<"/", m>>

\* req.set('Authorization', `Bearer ${this.token}`) if a token is held.
SetTokenAlways(req, tok) == [req EXCEPT !.auth = "Bearer " \o tok]
SetTokenNever(req, tok) == req
SetToken(req, tok) ==
    IF Truthy(tok) THEN [req EXCEPT !.auth = "Bearer " \o tok] ELSE req

\* req.set('Accept-Language', req.header['Accept-Language'] || language) if
\* a default language is configured.
SetDefaultLanguageNever(req, defaults) == req
SetDefaultLanguage(req, defaults) ==
    IF Truthy(defaults.language)
    THEN [req EXCEPT !.lang = IF Truthy(@) THEN @ ELSE defaults.language]
    ELSE req

\* The plugins of the constructor that set headers, in the order of their
\* agent.use().  (CHOOSE r \in {f(q) : q \in {x}} : TRUE is f(x), with x
\* worked out once.)
Plugins(req, tok, defaults) ==
    CHOOSE r \in {SetDefaultLanguage(q, defaults) : q \in {SetToken(req, tok)}} : TRUE

\* .set(field, value) by whoever builds the request; Absent: no .set().
SetHeaders(req, a, l) ==
    [req EXCEPT !.auth = IF a # Absent THEN a ELSE @,
                !.lang = IF l # Absent THEN l ELSE @]

\* this.agent.get(...).set(...): the agent runs the plugins on the request
\* as it creates it, and the .set() calls of the builder follow.
BuildPluginsLast(c, to, verb, a, l, tok, defaults) ==
    CHOOSE r \in {Plugins(q, tok, defaults) :
                     q \in {SetHeaders(NewRequest(c, to, verb), a, l)}} : TRUE
Build(c, to, verb, a, l, tok, defaults) ==
    CHOOSE r \in {SetHeaders(q, a, l) :
                     q \in {Plugins(NewRequest(c, to, verb), tok, defaults)}} : TRUE

\* this.agent.post('/login').send({ ...this.auth })
LoginRequestBare(c, tok, defaults) == NewRequest(c, "login", "POST")
LoginRequest(c, tok, defaults) ==
    Build(c, "login", "POST", Absent, Absent, tok, defaults)

\* const { language } = { ...this.opts, ...opts }, where the method reads it.
EffectiveLanguageDefault(defaults, o) == defaults.language
EffectiveLanguage(defaults, o) == Spread(defaults, o).language

\* The Accept-Language a method sets on its request: language || '', for
\* getSerieHead language as it is, and none for the other methods.
LanguageHeaderEverywhere(m, defaults, o) ==
    IF Truthy(EffectiveLanguage(defaults, o))
    THEN EffectiveLanguage(defaults, o) ELSE ""
LanguageHeaderUnset(m, defaults, o) ==
    IF m \in LanguageMethods \cup {"getSerieHead"}
    THEN IF Truthy(EffectiveLanguage(defaults, o))
         THEN EffectiveLanguage(defaults, o) ELSE Absent
    ELSE Absent
LanguageHeader(m, defaults, o) ==
    IF m \in LanguageMethods
    THEN IF Truthy(EffectiveLanguage(defaults, o))
         THEN EffectiveLanguage(defaults, o) ELSE ""
    ELSE IF m = "getSerieHead" THEN EffectiveLanguage(defaults, o)
    ELSE Absent

\* makeRequest() of the method m: a new request each time it is called.
TargetRequest(c, m, o, tok, defaults) ==
    Build(c, "target", IF m = "getSerieHead" THEN "HEAD" ELSE "GET",
          Absent, LanguageHeader(m, defaults, o), tok, defaults)

\* const { shouldReturnFullResponse } = { ...this.opts, ...opts }
EffectiveFullDefault(defaults, o) == defaults.shouldReturnFullResponse
EffectiveFullOption(defaults, o) == Spread(defaults, o).shouldReturnFullResponse

\* What a method returns of the response when it does not return all of it.
PayloadData(m, res) == Part("data", res)
Payload(m, res) ==
    IF m = "getSerieHead" THEN Part("headers", res)
    ELSE IF m = "getSearchSeriesParams" THEN Part("params", res)
    ELSE Part("data", res)

\* return shouldReturnFullResponse ? res : res.body.data
EndpointReturn(m, res, defaults, o) ==
    IF Truthy(EffectiveFullOption(defaults, o)) THEN res ELSE Payload(m, res)

\* if (!this.token)
\* const { ... } = { ...this.opts, ...opts } builds a new object: this.opts
\* is what it was.
OptsAfterCallMerged(defaults, o) == Spread(defaults, o)
OptsAfterCall(defaults, o) == defaults

\* catch (err) { await this.authenticate(); ... }: whatever this.token is.
ReauthNeededIfUnchanged(cur, builtWith) == cur = builtWith
ReauthNeeded(cur, builtWith) == TRUE

NeedsAuthAlways(tok) == TRUE
NeedsAuthNever(tok) == FALSE
NeedsAuth(tok) == ~Truthy(tok)

\* this.token = res.body.token
TokenAfterLoginKeep(cur, bodyToken) == IF Truthy(cur) THEN cur ELSE bodyToken
TokenAfterLogin(cur, bodyToken) == bodyToken

\* The login request rejects: the await throws before the assignment.
TokenAfterLoginFailureCleared(cur) == Null
TokenAfterLoginFailure(cur) == cur

\* A target request rejects: neither the catch block nor the caller assigns
\* this.token.
TokenAfterTargetFailureCleared(cur) == Null
TokenAfterTargetFailure(cur) == cur

\* return shouldReturnFullResponse ? res : this.token
AuthReturn(res, tok, defaults, o) ==
    IF Truthy(Spread(defaults, o).shouldReturnFullResponse)
    THEN res ELSE TokenValue(tok)

\* What a failed target request leads to: inside the try block the catch
\* block runs, anywhere else the error leaves _doRequest.
OnTargetFailureNoRetry(p) == "reject"
OnTargetFailureLoop(p) == "catch"
OnTargetFailure(p) == IF p = "try" THEN "catch" ELSE "reject"

\* What a failed authenticate() leads to inside _doRequest: it is awaited
\* outside any try block.
OnLoginFailureContinue == "continue"
OnLoginFailure == "reject"

\* return makeRequest() / return await makeRequest()
ResolutionDropped(r) == NoValue
Resolution(r) == r

\* The error _doRequest rejects with when a target request fails outside the
\* try block: the error of that request; err of the catch block is unused.
RejectionFirst(err, e) == IF err.form = "error" THEN err ELSE e
Rejection(err, e) == e

\* No settled call is waiting for its caller to take the result.
Quiet == \A d \in Calls : pc[d] # "done"

\* No call is repeated.
NoPrev ==
    [seen |-> FALSE, method |-> "none", callOpts |-> NoOpts, trace |-> <<>>,
     ret |-> [st |-> "pending", val |-> NoValue]]

\* A second client, as its constructor leaves it.
NoOther ==
    [token |-> Null,
     opts |-> [shouldReturnFullResponse |-> "false", language |-> Null],
     auth |-> [username |-> Undefined, userkey |-> Undefined, apikey |-> "key2"]]

\* this.token = res.body.token assigns a field of this instance: another
\* instance keeps its own.
OtherAfterLoginShared(o, t) == [o EXCEPT !.token = t]
OtherAfterLogin(o, t) == o

\* The request as it leaves: what it asks for, its body, and the plugins
\* that look at its url.
Sends(req, path, body) ==
    CHOOSE r \in {Route(q, url, shouldDetectProxy, env) :
                     q \in {[req EXCEPT !.url = path, !.body = body]}} : TRUE

\* Every call slot is free.
NoCalls ==
    /\ pc = [c \in Calls |-> "idle"]
    /\ kind = [c \in Calls |-> "none"]
    /\ callOpts = [c \in Calls |-> NoOpts]
    /\ hadToken = [c \in Calls |-> FALSE]
    /\ trace = [c \in Calls |-> <<>>]
    /\ caught = [c \in Calls |-> NoValue]
    /\ last = [c \in Calls |-> NoValue]
    /\ out = [c \in Calls |-> [st |-> "pending", val |-> NoValue]]
    /\ method = [c \in Calls |-> "none"]
    /\ ret = [c \in Calls |-> [st |-> "pending", val |-> NoValue]]
    /\ built = [c \in Calls |-> Absent]
    /\ args = [c \in Calls |-> NoArgs]
    /\ wire = NoRequest
    /\ overridden = {}
    /\ prev = NoPrev

\* What the constructor sets whatever its arguments.
Fresh ==
    /\ token = Null
    /\ loginRes = Null
    /\ env = NoEnv
    /\ NoCalls

\* new TheTVDbClient({ apikey, shouldReturnFullResponse }): language is null,
\* url and shouldDetectProxy have their defaults.
Init ==
    /\ Fresh
    /\ opts \in [shouldReturnFullResponse : Bools, language : {Null}]
    /\ url = DefaultUrl
    /\ shouldDetectProxy = TRUE
    /\ auth = DefaultAuth
    /\ other = NoOther

\* new TheTVDbClient({ apikey, shouldReturnFullResponse, language })
InitReq ==
    /\ Fresh
    /\ opts \in [shouldReturnFullResponse : Bools,
                 language : DefaultLanguages \cup {Null}]
    /\ url = DefaultUrl
    /\ shouldDetectProxy = TRUE
    /\ auth = DefaultAuth
    /\ other = NoOther

\* authenticate(o) called by the user: the login request is built and sent.
Authenticate(c, o) ==
    /\ Quiet
    /\ pc[c] = "idle"
    /\ pc' = [pc EXCEPT ![c] = "login"]
    /\ kind' = [kind EXCEPT ![c] = "authenticate"]
    /\ callOpts' = [callOpts EXCEPT ![c] = o]
    /\ hadToken' = [hadToken EXCEPT ![c] = Truthy(token)]
    /\ trace' = [trace EXCEPT ![c] = <<"auth", "login">>]
    /\ wire' = Sends(LoginRequest(c, token, opts), LoginPath, LoginBody(auth))
    /\ UNCHANGED <<token, opts, loginRes, caught, last, out, method, ret,
                   overridden, built>>
    /\ UNCHANGED elsewhere
    /\ UNCHANGED args

\* _doRequest of the method m called with opts o, up to its first await.
Start(c, m, o, a) ==
    /\ kind' = [kind EXCEPT ![c] = "endpoint"]
    /\ args' = [args EXCEPT ![c] = a]
    /\ method' = [method EXCEPT ![c] = m]
    /\ callOpts' = [callOpts EXCEPT ![c] = o]
    /\ overridden' = overridden \cup {k \in DOMAIN o : o[k] \notin {Absent, Null, Undefined}}
    /\ opts' = OptsAfterCall(opts, o)
    /\ hadToken' = [hadToken EXCEPT ![c] = Truthy(token)]
    /\ IF NeedsAuth(token)
       THEN /\ trace' = [trace EXCEPT ![c] = <<"auth", "login">>]
            /\ pc' = [pc EXCEPT ![c] = "login"]
            /\ built' = [built EXCEPT ![c] = Absent]
            /\ wire' = Sends(LoginRequest(c, token, opts), LoginPath, LoginBody(auth))
       ELSE /\ trace' = [trace EXCEPT ![c] = <<"req">>]
            /\ pc' = [pc EXCEPT ![c] = "try"]
            /\ built' = [built EXCEPT ![c] = token]
            /\ wire' = Sends(WithQuery(TargetRequest(c, m, o, token, opts), m, a),
                             TargetPath(m), NoBody)
    /\ UNCHANGED <<token, loginRes, url, shouldDetectProxy, auth, env, other>>

\* The endpoint method m is called with opts o.
DoRequest(c, m, o) ==
    /\ Quiet
    /\ pc[c] = "idle"
    /\ Start(c, m, o, NoArgs)
    /\ UNCHANGED <<caught, last, out, ret, prev>>

\* The caller has the result of an endpoint call and calls the same method
\* with the same arguments again.
Again(c) ==
    /\ pc[c] = "done"
    /\ kind[c] = "endpoint"
    /\ ~prev.seen
    /\ prev' = [seen |-> TRUE, method |-> method[c], callOpts |-> callOpts[c],
                trace |-> trace[c], ret |-> ret[c]]
    /\ Start(c, method[c], callOpts[c], args[c])
    /\ caught' = [caught EXCEPT ![c] = NoValue]
    /\ last' = [last EXCEPT ![c] = NoValue]
    /\ out' = [out EXCEPT ![c] = [st |-> "pending", val |-> NoValue]]
    /\ ret' = [ret EXCEPT ![c] = [st |-> "pending", val |-> NoValue]]

\* The login request succeeds with res.body.token = t; authenticate() returns.
\* _doRequest drops what authenticate() returns.
LoginSucceeds(c, t) ==
    /\ Quiet
    /\ pc[c] = "login"
    /\ token' = TokenAfterLogin(token, t)
    /\ other' = OtherAfterLogin(other, t)
    /\ loginRes' = t
    /\ trace' = [trace EXCEPT ![c] = Append(@, "authOk")]
    /\ built' = [built EXCEPT ![c] = Absent]
    /\ IF kind[c] = "authenticate"
       THEN /\ last' = [last EXCEPT ![c] = Response(Sent(trace[c]), t)]
            /\ out' = [out EXCEPT ![c] =
                   [st |-> "resolved",
                    val |-> AuthReturn(last'[c], token', opts, callOpts[c])]]
            /\ ret' = [ret EXCEPT ![c] = out'[c]]
            /\ pc' = [pc EXCEPT ![c] = "done"]
       ELSE /\ pc' = [pc EXCEPT ![c] = "authed"]
            /\ UNCHANGED <<last, out, ret>>
    /\ wire' = NoRequest
    /\ UNCHANGED <<opts, kind, callOpts, hadToken, caught, method, overridden>>
    /\ UNCHANGED <<url, shouldDetectProxy, auth, env, prev>>
    /\ UNCHANGED args

\* The login request fails: authenticate() rejects with that error.
LoginFails(c, cls) ==
    /\ Quiet
    /\ pc[c] = "login"
    /\ token' = TokenAfterLoginFailure(token)
    /\ last' = [last EXCEPT ![c] = Error(Sent(trace[c]), cls)]
    /\ trace' = [trace EXCEPT ![c] = Append(@, "authErr")]
    /\ built' = [built EXCEPT ![c] = Absent]
    /\ IF kind[c] = "authenticate" \/ OnLoginFailure = "reject"
       THEN /\ out' = [out EXCEPT ![c] = [st |-> "rejected", val |-> last'[c]]]
            /\ ret' = [ret EXCEPT ![c] = out'[c]]
            /\ pc' = [pc EXCEPT ![c] = "done"]
       ELSE /\ pc' = [pc EXCEPT ![c] = "authed"]
            /\ UNCHANGED <<out, ret>>
    /\ wire' = NoRequest
    /\ UNCHANGED <<opts, loginRes, kind, callOpts, hadToken, caught, method, overridden>>
    /\ UNCHANGED elsewhere
    /\ UNCHANGED args

\* After await this.authenticate(): return makeRequest().
MakeRequest(c) ==
    /\ Quiet
    /\ pc[c] = "authed"
    /\ trace' = [trace EXCEPT ![c] = Append(@, "req")]
    /\ pc' = [pc EXCEPT ![c] = "final"]
    /\ wire' = Sends(WithQuery(TargetRequest(c, method[c], callOpts[c], token, opts),
                               method[c], args[c]),
                     TargetPath(method[c]), NoBody)
    /\ UNCHANGED <<token, opts, loginRes, kind, callOpts, hadToken, caught, last,
                   out, method, ret, overridden, built>>
    /\ UNCHANGED elsewhere
    /\ UNCHANGED args

\* A target request succeeds: _doRequest resolves with its response and the
\* endpoint method returns the response or a part of it.
TargetSucceeds(c) ==
    /\ Quiet
    /\ pc[c] \in {"try", "final"}
    /\ last' = [last EXCEPT ![c] = Response(Sent(trace[c]), Undefined)]
    /\ trace' = [trace EXCEPT ![c] = Append(@, "reqOk")]
    /\ out' = [out EXCEPT ![c] = [st |-> "resolved", val |-> Resolution(last'[c])]]
    /\ ret' = [ret EXCEPT ![c] =
           [st |-> "resolved",
            val |-> EndpointReturn(method[c], out'[c].val, opts, callOpts[c])]]
    /\ pc' = [pc EXCEPT ![c] = "done"]
    /\ built' = [built EXCEPT ![c] = Absent]
    /\ wire' = NoRequest
    /\ UNCHANGED <<token, opts, loginRes, kind, callOpts, hadToken, caught, method,
                   overridden>>
    /\ UNCHANGED elsewhere
    /\ UNCHANGED args

\* A target request fails: the catch block authenticates again, or the error
\* leaves _doRequest and the endpoint method.
TargetFails(c, cls) ==
    /\ Quiet
    /\ pc[c] \in {"try", "final"}
    /\ token' = TokenAfterTargetFailure(token)
    /\ last' = [last EXCEPT ![c] = Error(Sent(trace[c]), cls)]
    /\ IF OnTargetFailure(pc[c]) = "catch"
       THEN /\ caught' = [caught EXCEPT ![c] = last'[c]]
            /\ IF ReauthNeeded(token, built[c])
               THEN /\ trace' = [trace EXCEPT ![c] = @ \o <<"reqErr", "auth", "login">>]
                    /\ pc' = [pc EXCEPT ![c] = "login"]
                    /\ wire' = Sends(LoginRequest(c, token', opts), LoginPath,
                                     LoginBody(auth))
               ELSE /\ trace' = [trace EXCEPT ![c] = @ \o <<"reqErr", "req">>]
                    /\ pc' = [pc EXCEPT ![c] = "final"]
                    /\ wire' = Sends(WithQuery(TargetRequest(c, method[c],
                                                             callOpts[c], token', opts),
                                               method[c], args[c]),
                                     TargetPath(method[c]), NoBody)
            /\ UNCHANGED <<out, ret, built>>
       ELSE /\ trace' = [trace EXCEPT ![c] = Append(@, "reqErr")]
            /\ out' = [out EXCEPT ![c] =
                   [st |-> "rejected", val |-> Rejection(caught[c], last'[c])]]
            /\ ret' = [ret EXCEPT ![c] = out'[c]]
            /\ pc' = [pc EXCEPT ![c] = "done"]
            /\ built' = [built EXCEPT ![c] = Absent]
            /\ wire' = NoRequest
            /\ UNCHANGED caught
    /\ UNCHANGED <<opts, loginRes, kind, callOpts, hadToken, method, overridden>>
    /\ UNCHANGED elsewhere
    /\ UNCHANGED args

\* The caller has its result; another call may start.
Return(c) ==
    /\ pc[c] = "done"
    /\ pc' = [pc EXCEPT ![c] = "idle"]
    /\ kind' = [kind EXCEPT ![c] = "none"]
    /\ callOpts' = [callOpts EXCEPT ![c] = NoOpts]
    /\ hadToken' = [hadToken EXCEPT ![c] = FALSE]
    /\ trace' = [trace EXCEPT ![c] = <<>>]
    /\ caught' = [caught EXCEPT ![c] = NoValue]
    /\ last' = [last EXCEPT ![c] = NoValue]
    /\ out' = [out EXCEPT ![c] = [st |-> "pending", val |-> NoValue]]
    /\ method' = [method EXCEPT ![c] = "none"]
    /\ ret' = [ret EXCEPT ![c] = [st |-> "pending", val |-> NoValue]]
    /\ built' = [built EXCEPT ![c] = Absent]
    /\ args' = [args EXCEPT ![c] = NoArgs]
    /\ wire' = NoRequest
    /\ prev' = NoPrev
    /\ UNCHANGED <<token, opts, loginRes, overridden>>
    /\ UNCHANGED <<url, shouldDetectProxy, auth, env, other>>

\* this.agent.get(path).set('Authorization', a).set('Accept-Language', l) by
\* the user of the client, outside any method of it and between its calls.
AgentRequest(a, l, path) ==
    /\ \A d \in Calls : pc[d] = "idle"
    /\ wire' = Sends(Build(0, "raw", "GET", a, l, token, opts), path, NoBody)
    /\ UNCHANGED <<token, opts, loginRes, pc, kind, callOpts, hadToken, trace,
                   caught, last, out, method, ret, overridden, built>>
    /\ UNCHANGED elsewhere
    /\ UNCHANGED args

\* process.env[v] = x, or delete process.env[v], by the program around the
\* client.
SetEnv(v, x) ==
    /\ Quiet
    /\ env' = [env EXCEPT ![v] = x]
    /\ wire' = NoRequest
    /\ UNCHANGED <<token, opts, loginRes, pc, kind, callOpts, hadToken, trace,
                   caught, last, out, method, ret, overridden, built>>
    /\ UNCHANGED <<url, shouldDetectProxy, auth, prev, other>>
    /\ UNCHANGED args

\* authenticate() on the second instance, from its login request to the
\* assignment of its token.
OtherAuthenticate(t) ==
    /\ Quiet
    /\ other' = [other EXCEPT !.token = t]
    /\ token' = OtherAfterLogin([token |-> token], t).token
    /\ wire' = [Sends(LoginRequest(0, other.token, other.opts), LoginPath,
                      LoginBody(other.auth)) EXCEPT !.to = "otherLogin"]
    /\ UNCHANGED <<opts, loginRes, pc, kind, callOpts, hadToken, trace,
                   caught, last, out, method, ret, overridden, built>>
    /\ UNCHANGED <<url, shouldDetectProxy, auth, env, prev>>
    /\ UNCHANGED args

\* A target request that the second instance builds.
OtherRequest(m) ==
    /\ Quiet
    /\ Truthy(other.token)
    /\ wire' = [Sends(TargetRequest(0, m, NoOpts, other.token, other.opts),
                      TargetPath(m), NoBody) EXCEPT !.to = "otherTarget"]
    /\ UNCHANGED <<token, opts, loginRes, pc, kind, callOpts, hadToken, trace,
                   caught, last, out, method, ret, overridden, built>>
    /\ UNCHANGED elsewhere
    /\ UNCHANGED args

\* The opts argument of authenticate().
AuthOpts == [shouldReturnFullResponse : Bools \cup {Absent}, language : {Absent}]

Next ==
    \/ \E c \in Calls, o \in AuthOpts : Authenticate(c, o)
    \/ \E c \in Calls : DoRequest(c, "getLanguages", NoOpts)
    \/ \E c \in Calls, t \in BodyTokens : LoginSucceeds(c, t)
    \/ \E c \in Calls, cls \in ErrorClasses : LoginFails(c, cls)
    \/ \E c \in Calls : MakeRequest(c)
    \/ \E c \in Calls : TargetSucceeds(c)
    \/ \E c \in Calls, cls \in ErrorClasses : TargetFails(c, cls)
    \/ \E c \in Calls : Return(c)

Spec == Init /\ [][Next]_vars

\* The client with one token value, one login response without a token and
\* one class of error.
LiveTokens == {"t1", ""}

NextFair ==
    \/ \E c \in Calls : Authenticate(c, NoOpts)
    \/ \E c \in Calls : DoRequest(c, "getLanguages", NoOpts)
    \/ \E c \in Calls, t \in LiveTokens : LoginSucceeds(c, t)
    \/ \E c \in Calls : LoginFails(c, "401")
    \/ \E c \in Calls : MakeRequest(c)
    \/ \E c \in Calls : TargetSucceeds(c)
    \/ \E c \in Calls : TargetFails(c, "401")
    \/ \E c \in Calls : Return(c)

\* The next step of call c after it has started: its request is answered,
\* its continuation runs, or its caller takes the result.
Progress(c) ==
    \/ \E t \in LiveTokens : LoginSucceeds(c, t)
    \/ LoginFails(c, "401")
    \/ MakeRequest(c)
    \/ TargetSucceeds(c)
    \/ TargetFails(c, "401")
    \/ Return(c)

\* Every request sent is answered, every continuation and every caller runs.
\* A step waits while a settled call is handed to its caller, so it is
\* enabled again and again rather than without interruption.
Fairness == \A c \in Calls : SF_vars(Progress(c))

SpecFair == Init /\ [][NextFair]_vars /\ Fairness

\* The client when every 2xx login response carries a token.
NextTokens ==
    \/ \E c \in Calls, o \in AuthOpts : Authenticate(c, o)
    \/ \E c \in Calls : DoRequest(c, "getLanguages", NoOpts)
    \/ \E c \in Calls, t \in Tokens : LoginSucceeds(c, t)
    \/ \E c \in Calls, cls \in ErrorClasses : LoginFails(c, cls)
    \/ \E c \in Calls : MakeRequest(c)
    \/ \E c \in Calls : TargetSucceeds(c)
    \/ \E c \in Calls, cls \in ErrorClasses : TargetFails(c, cls)
    \/ \E c \in Calls : Return(c)

SpecTokens == Init /\ [][NextTokens]_vars

\* The opts argument of an endpoint method: each key missing, null,
\* undefined or set.
CallOpts ==
    [shouldReturnFullResponse : Bools \cup {Absent, Null, Undefined},
     language : CallLanguages \cup {Absent, Null, Undefined}]

\* Headers the user sets on a request built on this.agent, and what it asks
\* for.
RawAuth == {Absent, "Basic x"}
RawLang == {Absent, "fr", ""}
RawPath == <<"/", "raw">>

\* One call at a time, of any endpoint method with any opts.
NextReq ==
    \/ \E m \in Methods, o \in CallOpts : DoRequest(1, m, o)
    \/ LoginSucceeds(1, "t1")
    \/ LoginFails(1, "401")
    \/ MakeRequest(1)
    \/ TargetSucceeds(1)
    \/ TargetFails(1, "401")
    \/ Return(1)
    \/ \E a \in RawAuth, l \in RawLang : AgentRequest(a, l, RawPath)

SpecReq == InitReq /\ [][NextReq]_vars

\* Base urls given to the constructor: https or http, with or without the
\* slash at the end, or with a path of their own.
Bases ==
    {<<"https", ":", "/", "/", "api.example.com", "/">>,
     <<"https", ":", "/", "/", "api.example.com">>,
     <<"http", ":", "/", "/", "api.example.com", "/">>,
     <<"http", ":", "/", "/", "api.example.com">>,
     <<"https", ":", "/", "/", "api.example.com", "/", "v2", "/">>}

\* What a request built on this.agent asks for: a path, a path with a
\* doubled slash of its own, a url with a scheme and a host, and a path
\* that does not start with '/'.
Paths ==
    {<<"/", "series", "/", "1">>,
     <<"/", "series", "/", "/", "1">>,
     <<"https", ":", "/", "/", "other.example.com", "/", "x">>,
     <<"http", ":", "/", "/", "other.example.com", "/", "x">>,
     <<"series", "/", "1">>}

\* Credentials given to the constructor.
Creds ==
    {DefaultAuth, [username |-> "user", userkey |-> "ukey", apikey |-> "key"]}

\* Values of the proxy variables; "" is a variable set to the empty string.
EnvValues(v) ==
    IF v \in {"https_proxy", "http_proxy"} THEN {Absent, "", "p1"} ELSE {Absent, "p2"}

\* new TheTVDbClient({ url, shouldDetectProxy, username, userkey, apikey })
InitPipe ==
    /\ Fresh
    /\ opts = [shouldReturnFullResponse |-> "false", language |-> Null]
    /\ url \in Bases
    /\ shouldDetectProxy \in BOOLEAN
    /\ auth \in Creds
    /\ other = NoOther

\* One call at a time, requests built on this.agent, and a process
\* environment that changes.
NextPipe ==
    \/ DoRequest(1, "getSerie", NoOpts)
    \/ LoginSucceeds(1, "t1")
    \/ LoginFails(1, "401")
    \/ MakeRequest(1)
    \/ TargetSucceeds(1)
    \/ TargetFails(1, "401")
    \/ Return(1)
    \/ \E path \in Paths : AgentRequest(Absent, Absent, path)
    \/ \E v \in EnvNames : \E x \in EnvValues(v) : SetEnv(v, x)

SpecPipe == InitPipe /\ [][NextPipe]_vars

\* The arguments of a call that is made twice.
TwiceMethods == {"getSerie", "getLanguages"}
TwiceOpts == [shouldReturnFullResponse : {Absent, "true"}, language : {Absent, "fr"}]

\* One call at a time, each made once or twice with the same arguments.
NextTwice ==
    \/ \E m \in TwiceMethods, o \in TwiceOpts : DoRequest(1, m, o)
    \/ LoginSucceeds(1, "t1")
    \/ LoginFails(1, "401")
    \/ MakeRequest(1)
    \/ TargetSucceeds(1)
    \/ TargetFails(1, "401")
    \/ Return(1)
    \/ Again(1)

SpecTwice == InitReq /\ [][NextTwice]_vars

\* Tokens the login endpoint gives the second instance.
OtherTokens == {"o1", "o2"}

\* The client next to a second instance.
NextTwo ==
    \/ \E c \in Calls : Authenticate(c, NoOpts)
    \/ \E c \in Calls : DoRequest(c, "getLanguages", NoOpts)
    \/ \E c \in Calls : LoginSucceeds(c, "t1")
    \/ \E c \in Calls : LoginFails(c, "401")
    \/ \E c \in Calls : MakeRequest(c)
    \/ \E c \in Calls : TargetSucceeds(c)
    \/ \E c \in Calls : TargetFails(c, "401")
    \/ \E c \in Calls : Return(c)
    \/ \E t \in OtherTokens : OtherAuthenticate(t)
    \/ OtherRequest("getLanguages")

SpecTwo == Init /\ [][NextTwo]_vars

\* The login endpoint answers the logins of call slot 1 with t1 and those of
\* the other slots with t2.
OwnToken(c) == IF c = 1 THEN "t1" ELSE "t2"

NextOwn ==
    \/ \E c \in Calls : Authenticate(c, NoOpts)
    \/ \E c \in Calls : DoRequest(c, "getLanguages", NoOpts)
    \/ \E c \in Calls : LoginSucceeds(c, OwnToken(c))
    \/ \E c \in Calls : LoginFails(c, "401")
    \/ \E c \in Calls : MakeRequest(c)
    \/ \E c \in Calls : TargetSucceeds(c)
    \/ \E c \in Calls : TargetFails(c, "401")
    \/ \E c \in Calls : Return(c)

SpecOwn == Init /\ [][NextOwn]_vars

(***************************************************************************)
(* Logins answered 2xx whose body carries no token, or an empty one: line  *)
(* 90 assigns res.body.token to this.token whatever it is.                 *)
(***************************************************************************)

\* The token fields of the login responses: a token, the empty string, or
\* no token field at all.
AnsweredTokens == {"t1", "", Undefined}

NextNoToken ==
    \/ \E c \in Calls : Authenticate(c, NoOpts)
    \/ \E c \in Calls : DoRequest(c, "getLanguages", NoOpts)
    \/ \E c \in Calls, t \in AnsweredTokens : LoginSucceeds(c, t)
    \/ \E c \in Calls : LoginFails(c, "401")
    \/ \E c \in Calls : MakeRequest(c)
    \/ \E c \in Calls : TargetSucceeds(c)
    \/ \E c \in Calls : TargetFails(c, "401")
    \/ \E c \in Calls : Return(c)

SpecNoToken == Init /\ [][NextNoToken]_vars

(***************************************************************************)
(* getUpdatedQuery({ fromTime, toTime }) with Dates and numbers.           *)
(***************************************************************************)

\* Dates, by their milliseconds since the epoch, the epoch itself among
\* them; numbers of seconds, in thousandths: 0, 1.5 and 60.
MaxMillis == 60000
Dates == {DateOf(0), DateOf(1500), DateOf(MaxMillis)}
Numbers == {NumberOf(0), NumberOf(1500), NumberOf(MaxMillis)}
FromTimes == Dates \cup Numbers
ToTimes == Dates \cup Numbers \cup {UndefinedTime}

\* getUpdatedQuery(q) is called.
GetUpdatedQuery(c, q) ==
    /\ Quiet
    /\ pc[c] = "idle"
    /\ Start(c, "getUpdatedQuery", NoOpts, q)
    /\ UNCHANGED <<caught, last, out, ret, prev>>

\* One call of getUpdatedQuery at a time.
NextTime ==
    \/ \E f \in FromTimes, t \in ToTimes :
           GetUpdatedQuery(1, [fromTime |-> f, toTime |-> t])
    \/ LoginSucceeds(1, "t1")
    \/ LoginFails(1, "401")
    \/ MakeRequest(1)
    \/ TargetSucceeds(1)
    \/ TargetFails(1, "401")
    \/ Return(1)

SpecTime == Init /\ [][NextTime]_vars

(***************************************************************************)
(* Properties of the retry wrapper and of authenticate().                  *)
(***************************************************************************)

\* s is an initial part of t.
IsPrefix(s, t) == Len(s) <= Len(t) /\ SubSeq(t, 1, Len(s)) = s

\* s is an initial part of one of the traces of T.
PrefixOfSome(s, T) == \E t \in T : IsPrefix(s, t)

\* The endpoint calls now on the client.
Endpoint(c) == kind[c] = "endpoint"
Settled(c) == pc[c] = "done"

\* The outcome of the call's first target request, if it has one.
FirstAttemptFailed(s) ==
    \E i \in DOMAIN s :
        /\ s[i] = "req" /\ \A j \in 1..(i - 1) : s[j] # "req"
        /\ i < Len(s) /\ s[i + 1] = "reqErr"
FirstAttemptSucceeded(s) ==
    \E i \in DOMAIN s :
        /\ s[i] = "req" /\ \A j \in 1..(i - 1) : s[j] # "req"
        /\ i < Len(s) /\ s[i + 1] = "reqOk"

\* The complete traces of a call that started without a token.
AuthFailed == <<"auth", "login", "authErr">>
AuthThenOk == <<"auth", "login", "authOk", "req", "reqOk">>
AuthThenErr == <<"auth", "login", "authOk", "req", "reqErr">>

\* The complete traces of a call that started with a token.
FirstOk == <<"req", "reqOk">>
ReauthFailed == <<"req", "reqErr", "auth", "login", "authErr">>
RetryOk == <<"req", "reqErr", "auth", "login", "authOk", "req", "reqOk">>
RetryErr == <<"req", "reqErr", "auth", "login", "authOk", "req", "reqErr">>

\* C1, as stated: every settled endpoint call that started without a token
\* authenticated first and then dispatched its target request exactly once.
\* It fails when the login request of that call fails: no target request is
\* dispatched at all.
C1_AsStated ==
    \A c \in Calls :
        (Settled(c) /\ Endpoint(c) /\ ~hadToken[c]) =>
            /\ IsPrefix(<<"auth", "login">>, trace[c])
            /\ Count(trace[c], "req") = 1

\* C1, amended: an endpoint call that starts without a token invokes
\* authenticate() first; when authenticate() succeeds the target request is
\* dispatched exactly once, after it, and when authenticate() fails the
\* target request is not dispatched; when that single attempt fails the call
\* rejects with the error of the attempt, with no second authenticate() and
\* no retry.
C1_NoTokenPath ==
    \A c \in Calls :
        (Endpoint(c) /\ ~hadToken[c]) =>
            /\ PrefixOfSome(trace[c], {AuthFailed, AuthThenOk, AuthThenErr})
            /\ Settled(c) => trace[c] \in {AuthFailed, AuthThenOk, AuthThenErr}
            /\ (Settled(c) /\ trace[c] = AuthThenErr) =>
                   /\ out[c].st = "rejected"
                   /\ out[c].val = last[c]
                   /\ \E cls \in ErrorClasses : last[c] = Error(2, cls)

\* C1, the case: a call that started without a token, authenticated, sent
\* its one target request and was rejected with that request's error.
C1_Witness ==
    \E c \in Calls :
        /\ Settled(c) /\ Endpoint(c) /\ ~hadToken[c]
        /\ trace[c] = AuthThenErr
        /\ out[c].st = "rejected"

\* C2, as stated: every settled endpoint call that started with a token and
\* whose first attempt failed authenticated once and attempted the target
\* exactly one more time.  It fails when the re-authentication fails: there
\* is no second attempt.
C2_AsStated ==
    \A c \in Calls :
        (Settled(c) /\ Endpoint(c) /\ hadToken[c] /\ FirstAttemptFailed(trace[c])) =>
            /\ Count(trace[c], "auth") = 1
            /\ Count(trace[c], "req") = 2

\* C2, amended: an endpoint call that starts with a token and whose first
\* attempt fails, with whatever class of error, invokes authenticate()
\* exactly once; when that authenticate() succeeds the target request is
\* attempted exactly one more time, whatever its outcome, and when it fails
\* the target request is not attempted again.
C2_RetryPath ==
    \A c \in Calls :
        (Endpoint(c) /\ hadToken[c] /\ FirstAttemptFailed(trace[c])) =>
            /\ PrefixOfSome(trace[c], {ReauthFailed, RetryOk, RetryErr})
            /\ Count(trace[c], "auth") = 1
            /\ Count(trace[c], "login") = 1
            /\ caught[c].form = "error" /\ caught[c].n = 1
            /\ Settled(c) => trace[c] \in {ReauthFailed, RetryOk, RetryErr}

\* C2, the case: a first attempt that failed with something other than a
\* 401 was followed by one authenticate() and one more attempt.
C2_Witness ==
    \E c \in Calls :
        /\ Settled(c) /\ Endpoint(c) /\ hadToken[c]
        /\ caught[c] = Error(1, "404")
        /\ trace[c] \in {RetryOk, RetryErr}

\* C3: an endpoint call that starts with a token and whose first attempt
\* succeeds does not invoke authenticate() and dispatches the target request
\* exactly once, and no step of it changes this.token.
C3_FirstAttemptSucceeds ==
    /\ [](\A c \in Calls :
            (Settled(c) /\ Endpoint(c) /\ hadToken[c]
                /\ FirstAttemptSucceeded(trace[c])) =>
                /\ trace[c] = FirstOk
                /\ Count(trace[c], "auth") = 0
                /\ Count(trace[c], "req") = 1)
    /\ [][\A c \in Calls :
            (/\ trace'[c] # trace[c]
             /\ kind'[c] = "endpoint" /\ hadToken'[c]
             /\ trace'[c] \in {<<"req">>, FirstOk}) => token' = token]_vars

\* C3, the case: a call that started with a token has settled after one
\* successful attempt, and the token is the one it started with.
C3_Witness ==
    \E c \in Calls :
        /\ Settled(c) /\ Endpoint(c) /\ hadToken[c]
        /\ trace[c] = FirstOk
        /\ out[c].st = "resolved"
        /\ token \in Tokens

RECURSIVE SumOver(_, _)
\* The sum of f[c] over the calls c of S.
SumOver(S, f) ==
    IF S = {} THEN 0
    ELSE LET c == CHOOSE x \in S : TRUE IN f[c] + SumOver(S \ {c}, f)

EndpointCalls == {c \in Calls : Endpoint(c)}

\* C4: whatever the interleaving, one _doRequest call dispatches its target
\* request at most twice and invokes authenticate() at most once, each
\* authenticate() sending one login request; the N calls on the client have
\* dispatched at most 2N target requests and sent at most N login requests.
C4_AtMostTwoDispatches ==
    /\ \A c \in EndpointCalls :
           /\ Count(trace[c], "req") <= 2
           /\ Count(trace[c], "auth") <= 1
           /\ Count(trace[c], "login") = Count(trace[c], "auth")
    /\ SumOver(EndpointCalls, [c \in Calls |-> Count(trace[c], "req")])
           <= 2 * Cardinality(EndpointCalls)
    /\ SumOver(EndpointCalls, [c \in Calls |-> Count(trace[c], "login")])
           <= Cardinality(EndpointCalls)

\* C4, the case: two calls in flight together, each on its second dispatch
\* after one authenticate().
C4_Witness ==
    \E c, d \in Calls :
        /\ c # d
        /\ Endpoint(c) /\ Endpoint(d)
        /\ pc[c] = "final" /\ pc[d] = "final"
        /\ Count(trace[c], "req") = 2 /\ Count(trace[d], "req") = 2
        /\ Count(trace[c], "auth") = 1 /\ Count(trace[d], "auth") = 1

\* C5: a call that starts with a token, fails its first dispatch and
\* succeeds on its second resolves with the response of the second dispatch
\* and has invoked authenticate() exactly once; the first error does not
\* reach the caller.
C5_RetrySucceeds ==
    \A c \in Calls :
        (/\ Settled(c) /\ Endpoint(c) /\ hadToken[c]
         /\ FirstAttemptFailed(trace[c])
         /\ trace[c][Len(trace[c])] = "reqOk") =>
            /\ out[c].st = "resolved"
            /\ out[c].val = Response(3, Undefined)
            /\ out[c].val = last[c]
            /\ out[c].val # caught[c]
            /\ Count(trace[c], "auth") = 1

\* C5, the case: a first dispatch failed, the retry succeeded and the call
\* has settled.
C5_Witness ==
    \E c \in Calls :
        /\ Settled(c) /\ Endpoint(c) /\ hadToken[c]
        /\ trace[c] = RetryOk
        /\ caught[c].form = "error"

\* C6: a call that starts with a token and fails both its first attempt and
\* its retry rejects with the error of the retry as the transport gave it,
\* not with the error of the first attempt and not with an error of another
\* kind, and makes no third attempt.
C6_RetryFails ==
    \A c \in Calls :
        (/\ Settled(c) /\ Endpoint(c) /\ hadToken[c]
         /\ FirstAttemptFailed(trace[c])
         /\ trace[c][Len(trace[c])] = "reqErr") =>
            /\ out[c].st = "rejected"
            /\ out[c].val = last[c]
            /\ \E cls \in ErrorClasses : out[c].val = Error(3, cls)
            /\ out[c].val # caught[c]
            /\ Count(trace[c], "req") = 2

\* C6, the case: both attempts failed, with errors of different classes, and
\* the call rejected with the class of the second.
C6_Witness ==
    \E c \in Calls :
        /\ Settled(c) /\ Endpoint(c) /\ hadToken[c]
        /\ trace[c] = RetryErr
        /\ caught[c] = Error(1, "401")
        /\ out[c].val = Error(3, "net")

\* C7: when authenticate() fails inside _doRequest, on the path without a
\* token or after a failed first attempt, the call rejects with the error of
\* the login request as the transport gave it, dispatches no target request
\* after it, and the step leaves this.token as it was: absent stays absent
\* and a stale token is kept.
C7_AuthFailureInWrapper ==
    /\ [](\A c \in Calls :
            (Endpoint(c) /\ Count(trace[c], "authErr") > 0) =>
                /\ Settled(c)
                /\ trace[c] \in {AuthFailed, ReauthFailed}
                /\ out[c].st = "rejected"
                /\ out[c].val = last[c]
                /\ \E cls \in ErrorClasses :
                       last[c] = Error(Count(trace[c], "req") + 1, cls))
    /\ [][\A c \in Calls :
            (kind[c] = "endpoint" /\ trace'[c] = Append(trace[c], "authErr"))
                => token' = token]_vars

\* C7, the case: a re-authentication failed while a token was held; the call
\* is rejected and the token is still held.
C7_Witness ==
    \E c \in Calls :
        /\ Settled(c) /\ Endpoint(c)
        /\ trace[c] = ReauthFailed
        /\ out[c].st = "rejected"
        /\ token \in Tokens

\* C8: a call of authenticate() sends exactly one login request; when that
\* request fails, the call rejects with its error as the transport gave it,
\* the login is not tried again, and the step leaves this.token as it was.
C8_AuthenticateFailure ==
    /\ [](\A c \in Calls :
            kind[c] = "authenticate" =>
                /\ Count(trace[c], "login") = 1
                /\ Count(trace[c], "auth") = 1
                /\ Count(trace[c], "authErr") > 0 =>
                       /\ Settled(c)
                       /\ trace[c] = AuthFailed
                       /\ out[c].st = "rejected"
                       /\ out[c].val = last[c]
                       /\ \E cls \in ErrorClasses : last[c] = Error(1, cls))
    /\ [][\A c \in Calls :
            (kind[c] = "authenticate" /\ trace'[c] = Append(trace[c], "authErr"))
                => token' = token]_vars

\* C8, the case: authenticate() was called while a token was held and its
\* login request failed; the token is still held.
C8_Witness ==
    \E c \in Calls :
        /\ Settled(c) /\ kind[c] = "authenticate" /\ hadToken[c]
        /\ trace[c] = AuthFailed
        /\ out[c].st = "rejected"
        /\ token \in Tokens

\* shouldReturnFullResponse in force for a direct authenticate(o): o's value
\* when o gives true or false, the constructor's otherwise.
EffectiveFull(c) ==
    IF callOpts[c].shouldReturnFullResponse \in Bools
    THEN callOpts[c].shouldReturnFullResponse = "true"
    ELSE opts.shouldReturnFullResponse = "true"

\* C9: every successful authenticate(), direct or inside _doRequest, with or
\* without a token held before, replaces this.token by the token of the
\* server's response; a direct call resolves with the full response when
\* shouldReturnFullResponse is in force (the call's option over the
\* constructor's) and with that token otherwise.
C9_AuthenticateSuccess ==
    /\ [](\A c \in Calls :
            (Settled(c) /\ kind[c] = "authenticate" /\ out[c].st = "resolved") =>
                /\ last[c].form = "response" /\ last[c].n = 1
                /\ token = last[c].tok
                /\ out[c].val = IF EffectiveFull(c) THEN last[c]
                                ELSE TokenValue(last[c].tok))
    /\ [][\A c \in Calls :
            trace'[c] = Append(trace[c], "authOk") =>
                token' = loginRes']_vars

\* C9, the case: authenticate({shouldReturnFullResponse: true}) on a client
\* built with false, called while another token was held, has replaced that
\* token and resolved with the full response.
C9_Witness ==
    \E c \in Calls :
        /\ Settled(c) /\ kind[c] = "authenticate" /\ hadToken[c]
        /\ opts.shouldReturnFullResponse = "false"
        /\ callOpts[c].shouldReturnFullResponse = "true"
        /\ out[c] = [st |-> "resolved", val |-> Response(1, "t2")]
        /\ token = "t2"

\* C10: this.token is null after construction and from then on changes only
\* in a step in which an authenticate() completes successfully; no other
\* step of an endpoint call, and no failed request, changes it.
C10_TokenChangesOnlyOnLogin ==
    /\ token = Null
    /\ [][token' # token =>
            \E c \in Calls :
                /\ pc[c] = "login"
                /\ trace'[c] = Append(trace[c], "authOk")
                /\ token' = loginRes']_vars

\* C10, the case: target requests and a login have failed since the token
\* was obtained, and the token is still held.
C10_Witness ==
    \E c \in Calls :
        /\ Settled(c) /\ Endpoint(c)
        /\ trace[c] = RetryErr
        /\ token \in Tokens

(***************************************************************************)
(* Properties of the requests the client sends.                            *)
(***************************************************************************)

\* The step just taken sent a target request of call c.
TargetSent(c) == wire.to = "target" /\ wire.call = c

\* The step just taken sent the retry of call c: the target request that
\* follows a failed first attempt and a successful login.
RetrySent(c) == TargetSent(c) /\ pc[c] = "final" /\ hadToken[c]

\* C11: when every successful login response carries a non-empty token, a
\* token is held whenever a target request is sent, and the request carries
\* Authorization 'Bearer ' followed by the token held as it is built.
C11_TargetCarriesToken ==
    \A c \in Calls :
        TargetSent(c) =>
            /\ Truthy(token)
            /\ wire.auth = "Bearer " \o token

\* A call that started without a token sends its target request with the
\* token its login has just installed.
C11_Witness ==
    \E c \in Calls :
        /\ TargetSent(c) /\ ~hadToken[c]
        /\ trace[c] = <<"auth", "login", "authOk", "req">>
        /\ wire.auth = "Bearer t2"

\* C12: when every successful login response carries a non-empty token, the
\* login of a retrying call installs the token of its response, and the
\* retry is built after it: it carries the token of the latest successful
\* login, which is that login or one that succeeded after it.
C12_RetryCarriesNewToken ==
    [][\A c \in Calls :
          /\ (pc[c] = "login" /\ pc'[c] = "authed") =>
                 (token' = loginRes' /\ Truthy(token'))
          /\ (pc[c] = "authed" /\ pc'[c] = "final" /\ hadToken[c]) =>
                 /\ loginRes' = loginRes
                 /\ wire'.call = c /\ wire'.to = "target" /\ wire'.verb = "GET"
                 /\ wire'.auth = "Bearer " \o loginRes /\ wire'.lang = Absent]_vars

\* A retry is sent with t2 by a call whose login answered t2.
C12_Witness ==
    \E c \in Calls :
        /\ RetrySent(c)
        /\ trace[c] = <<"req", "reqErr", "auth", "login", "authOk", "req">>
        /\ loginRes = "t2"
        /\ wire.auth = "Bearer t2"

\* C13: an endpoint call that finds no token, or whose first attempt fails,
\* sends a login request of its own, whatever logins other calls have in
\* flight.
C13_NoSingleFlight ==
    [][\A c \in Calls :
          /\ (pc[c] = "idle" /\ kind'[c] = "endpoint" /\ ~Truthy(token)) =>
                 (pc'[c] = "login" /\ wire'.to = "login" /\ wire'.call = c)
          /\ (pc[c] = "try" /\ pc'[c] # "try" /\ last'[c].form = "error") =>
                 (pc'[c] = "login" /\ wire'.to = "login" /\ wire'.call = c)]_vars

\* Two endpoint calls that both found no token each have a login request in
\* flight.
C13_Witness ==
    /\ \A c \in Calls : Endpoint(c) /\ ~hadToken[c] /\ pc[c] = "login"
    /\ Cardinality(Calls) >= 2

\* Two endpoint calls whose first attempts both failed each have a login
\* request in flight.
C13_WitnessExpired ==
    /\ \A c \in Calls :
           Endpoint(c) /\ pc[c] = "login"
           /\ trace[c] = <<"req", "reqErr", "auth", "login">>
    /\ Cardinality(Calls) >= 2

\* The call is under way: started and not yet settled.
InFlight(c) == pc[c] \in {"login", "authed", "try", "final"}

\* C14: when every request sent is answered, an endpoint call under way
\* settles, resolved or rejected; and a call never has sent more than three
\* requests.
C14_CallTerminates ==
    /\ \A c \in Calls : [](Sent(trace[c]) <= 3)
    /\ \A c \in Calls : (Endpoint(c) /\ InFlight(c)) ~> (Endpoint(c) /\ Settled(c))

\* An endpoint call has settled after its three requests: first attempt,
\* login, retry.
C14_Witness ==
    \E c \in Calls :
        Endpoint(c) /\ Settled(c) /\ Sent(trace[c]) = 3 /\ out[c].st \in {"resolved", "rejected"}

(***************************************************************************)
(* Properties of the options of a call.                                    *)
(***************************************************************************)

\* The methods that read opts.language.
ReadsLanguage == LanguageMethods \cup {"getSerieHead"}

\* An option that has a value: neither missing, nor null, nor undefined.
Provided(v) == v \notin {Absent, Null, Undefined}

\* The endpoint call c has resolved.
Resolved(c) == Endpoint(c) /\ Settled(c) /\ ret[c].st = "resolved"

\* The endpoint call c returned the whole response of _doRequest.
ReturnedFull(c) == ret[c].val = out[c].val /\ ret[c].val.form = "response"

\* C15: the target request of a call of a method that reads opts.language
\* carries the language given to that call; this.opts is never changed by a
\* call; and the target request of a call given no language carries the
\* default language of the constructor, whatever earlier calls were given.
C15_LanguageForThatCallOnly ==
    /\ [](\A c \in Calls :
            TargetSent(c) =>
                /\ (method[c] \in ReadsLanguage /\ Truthy(callOpts[c].language)) =>
                       wire.lang = callOpts[c].language
                /\ callOpts[c].language = Absent =>
                       IF Truthy(opts.language)
                       THEN wire.lang = opts.language
                       ELSE ~Truthy(wire.lang))
    /\ [][opts' = opts]_vars

\* After a call that was given a language, getSerie is called without one on
\* a client built with 'en', and its target request carries 'en'.
C15_Witness ==
    /\ "language" \in overridden
    /\ TargetSent(1) /\ method[1] = "getSerie"
    /\ callOpts[1].language = Absent
    /\ opts.language = "en" /\ wire.lang = "en"

\* C16, as stated: the target request of every endpoint method carries the
\* language given to the call. It fails for the methods that do not read
\* opts.language.
C16_AsStated ==
    \A c \in Calls :
        (TargetSent(c) /\ Truthy(callOpts[c].language)) =>
            wire.lang = callOpts[c].language

\* C16: the target request of a method that reads opts.language carries the
\* language given to the call; the target request of any other method
\* carries the default language of the constructor, or no Accept-Language
\* when there is none.
C16_LanguageWhereRead ==
    \A c \in Calls :
        (TargetSent(c) /\ Truthy(callOpts[c].language)) =>
            IF method[c] \in ReadsLanguage
            THEN wire.lang = callOpts[c].language
            ELSE wire.lang = (IF Truthy(opts.language) THEN opts.language ELSE Absent)

\* getSerieActors is called with 'fr' on a client built with 'en': its
\* target request carries 'en'.
C16_Witness ==
    /\ TargetSent(1) /\ method[1] = "getSerieActors"
    /\ callOpts[1].language = "fr"
    /\ opts.language = "en" /\ wire.lang = "en"

\* C17: an endpoint call given shouldReturnFullResponse true returns the
\* whole response and one given false returns a part of it, whatever the
\* default of the constructor; this.opts is never changed by a call; and a
\* call given no such option follows the default of the constructor,
\* whatever earlier calls were given.
C17_FullResponseForThatCallOnly ==
    /\ [](\A c \in Calls :
            Resolved(c) =>
                /\ callOpts[c].shouldReturnFullResponse = "true" => ReturnedFull(c)
                /\ callOpts[c].shouldReturnFullResponse = "false" => ~ReturnedFull(c)
                /\ callOpts[c].shouldReturnFullResponse = Absent =>
                       (ReturnedFull(c) <=> Truthy(opts.shouldReturnFullResponse)))
    /\ [][opts' = opts]_vars

\* A call given false on a client built with true returns a part of the
\* response.
C17_Witness ==
    /\ Resolved(1)
    /\ opts.shouldReturnFullResponse = "true"
    /\ callOpts[1].shouldReturnFullResponse = "false"
    /\ ret[1].val.form = "data"

\* After a call that was given the option, a call without it on a client
\* built with true returns the whole response.
C17_WitnessLater ==
    /\ "shouldReturnFullResponse" \in overridden
    /\ Resolved(1)
    /\ opts.shouldReturnFullResponse = "true"
    /\ callOpts[1].shouldReturnFullResponse = Absent
    /\ ReturnedFull(1)

\* The value of an option for a call: the one given to the call if it has a
\* value, else the default of the constructor.
Precedence(default, given) == IF Provided(given) THEN given ELSE default

\* C18, as stated: a call uses the value given to it if there is one, else
\* the default of the constructor; an option passed as null or undefined
\* leaves the default in force.
C18_AsStated ==
    \A c \in Calls :
        /\ (TargetSent(c) /\ method[c] \in LanguageMethods
            /\ Truthy(Precedence(opts.language, callOpts[c].language))) =>
               wire.lang = Precedence(opts.language, callOpts[c].language)
        /\ Resolved(c) =>
               (ReturnedFull(c) <=>
                    Truthy(Precedence(opts.shouldReturnFullResponse,
                                      callOpts[c].shouldReturnFullResponse)))

C20_AuthorizationHeader ==
    [][/\ \A a \in RawAuth, l \in RawLang :
              AgentRequest(a, l, RawPath) =>
                  wire'.auth = (IF a # Absent THEN a
                                ELSE IF Truthy(token) THEN "Bearer " \o token
                                ELSE Absent)
       /\ wire'.to \in {"login", "target"} =>
              wire'.auth = (IF Truthy(token) THEN "Bearer " \o token ELSE Absent)]_vars

\* While a token is held, a request on which the caller set Authorization is
\* sent with the caller's value.
C20_Witness ==
    /\ Truthy(token)
    /\ wire.to = "raw" /\ wire.auth = "Basic x"

\* While no token is held, a request is sent with no Authorization.
C20_WitnessNoToken ==
    /\ ~Truthy(token)
    /\ wire.to = "raw" /\ wire.auth = Absent

(***************************************************************************)
(* Properties of the request pipeline.                                     *)
(***************************************************************************)

\* C21: a request built on this.agent is sent with the Accept-Language the
\* caller set on it if the caller set one, the empty one included; else with
\* the default language if one is configured; else with no Accept-Language.
\* A login request, on which nothing sets a language, follows the same rule.
C21_DefaultLanguage ==
    [][/\ \A a \in RawAuth, l \in RawLang :
              AgentRequest(a, l, RawPath) =>
                  wire'.lang = (IF l # Absent THEN l
                                ELSE IF Truthy(opts.language) THEN opts.language
                                ELSE Absent)
       /\ wire'.to = "login" =>
              wire'.lang = (IF Truthy(opts.language) THEN opts.language ELSE Absent)]_vars

\* On a client built with 'en', a request on which the caller set an empty
\* Accept-Language is sent with the empty one.
C21_Witness ==
    /\ opts.language = "en"
    /\ wire.to = "raw" /\ wire.lang = ""

\* On a client built with 'en', a request on which the caller set no
\* language is sent with 'en'.
C21_WitnessDefault ==
    /\ opts.language = "en"
    /\ wire.to = "raw" /\ wire.lang = "en"

\* b without the '/'s at its end.
RECURSIVE StripSlashes(_)
StripSlashes(b) ==
    IF Len(b) > 0 /\ b[Len(b)] = "/" THEN StripSlashes(SubSeq(b, 1, Len(b) - 1)) ELSE b

\* u has two '/' in a row at position i.
DoubledAt(u, i) == i < Len(u) /\ u[i] = "/" /\ u[i + 1] = "/"

\* u has no '/' twice in a row.
NoDoubled(u) == \A i \in DOMAIN u : ~DoubledAt(u, i)

\* u has '//' after its scheme and nowhere else.
OnlySchemeDoubled(u) == \A i \in DOMAIN u : DoubledAt(u, i) <=> (i = 3 /\ u[2] = ":")

\* C22: a request for a path that starts with '/' is sent to the base url
\* followed by the path, with one '/' between them whether or not the base
\* ends with one; the '//' after the scheme is kept and no other doubled
\* '/' is left.  A request for anything else is sent to what it asked for.
C22_BaseUrl ==
    [][/\ \A path \in Paths :
              AgentRequest(Absent, Absent, path) =>
                  IF path[1] = "/"
                  THEN /\ OnlySchemeDoubled(wire'.url)
                       /\ NoDoubled(path) => wire'.url = StripSlashes(url) \o path
                  ELSE wire'.url = path
       /\ wire'.to = "login" => wire'.url = StripSlashes(url) \o LoginPath
       /\ wire'.to = "target" =>
              wire'.url = StripSlashes(url) \o TargetPath(method'[wire'.call])]_vars

\* Base 'https://api.example.com/' and path '/series/1' give
\* 'https://api.example.com/series/1'.
C22_Witness ==
    /\ url = <<"https", ":", "/", "/", "api.example.com", "/">>
    /\ wire.to = "raw"
    /\ wire.url = <<"https", ":", "/", "/", "api.example.com", "/", "series", "/", "1">>

\* The scheme of a url, "" when it has none.
Scheme(u) == IF Len(u) >= 2 /\ u[2] = ":" THEN u[1] ELSE ""

\* The proxy variable of a scheme is in the environment with a value.
ProxySet(scheme) ==
    \/ scheme = "https" /\ (Truthy(env.https_proxy) \/ Truthy(env.HTTPS_PROXY))
    \/ scheme = "http" /\ (Truthy(env.http_proxy) \/ Truthy(env.HTTP_PROXY))

\* C23: a request is routed through a proxy exactly when the client was
\* built with proxy detection and the proxy variable of the scheme of the
\* url the request is sent to has a value as the request is built.
C23_ProxySelection ==
    wire.to # "none" =>
        (wire.proxy # Absent <=> (shouldDetectProxy /\ ProxySet(Scheme(wire.url))))

\* A request for a path on a client with an https base is routed through
\* the proxy of https_proxy.
C23_Witness ==
    /\ wire.to = "target"
    /\ Scheme(wire.url) = "https"
    /\ wire.proxy = "p1"

(***************************************************************************)
(* Properties of the state of the client.                                  *)
(***************************************************************************)

\* What the constructor is given and no method assigns.
configuration == <<opts, auth, url, shouldDetectProxy>>

\* C24: when a method is called again with the same arguments while a token
\* is held, the second call sends a target request of its own; when the
\* first attempts of both calls succeed, each call sent that one request and
\* no login, and the second resolves with the response to its one request;
\* no call changes the options, the credentials or the base url, and the
\* token changes only when a login succeeds, which neither call sends.
C24_TwoIndependentAttempts ==
    /\ [](\A c \in Calls :
            (prev.seen /\ prev.trace = FirstOk /\ Settled(c)
             /\ FirstAttemptSucceeded(trace[c])) =>
                /\ trace[c] = FirstOk
                /\ out[c] = [st |-> "resolved", val |-> Response(1, Undefined)])
    /\ [][\A c \in Calls :
            (pc[c] = "done" /\ pc'[c] # "done" /\ prev'.seen /\ Truthy(token)) =>
                /\ wire'.to = "target" /\ wire'.call = c
                /\ trace'[c] = <<"req">>
                /\ method'[c] = prev'.method /\ callOpts'[c] = prev'.callOpts]_vars
    /\ [][configuration' = configuration]_vars
    /\ [][token' # token => \E c \in Calls : pc[c] = "login" /\ pc'[c] # "login"]_vars

\* getSerie has been called twice with the same arguments; both calls sent
\* one request and resolved.
C24_Witness ==
    /\ prev.seen /\ prev.method = "getSerie" /\ prev.trace = FirstOk
    /\ prev.callOpts.language = "fr"
    /\ Settled(1) /\ trace[1] = FirstOk /\ ret[1].st = "resolved"

\* The step just taken was one of the second instance.
OtherStep == wire.to \in {"otherLogin", "otherTarget"}

\* C25: a step of the client leaves the token, the options and the
\* credentials of a second instance as they are, a step of the second
\* instance leaves those of the client as they are, and a request carries
\* the token of the instance that built it.
C25_InstancesApart ==
    /\ [][IF wire'.to \in {"otherLogin", "otherTarget"}
          THEN UNCHANGED <<token, opts, auth>>
          ELSE other' = other]_vars
    /\ [](wire.to \in {"login", "target"} =>
              wire.auth = (IF Truthy(token) THEN "Bearer " \o token ELSE Absent))
    /\ [](wire.to = "otherTarget" => wire.auth = "Bearer " \o other.token)

\* Both instances hold a token and the client sends a target request with
\* its own.
C25_Witness ==
    /\ token = "t1" /\ other.token = "o2"
    /\ wire.to = "target" /\ wire.auth = "Bearer t1"

\* C26: every login request is a POST to /login of the base url whose body
\* holds the credentials the constructor was given, and no step changes
\* this.auth.
C26_CredentialsImmutable ==
    /\ [](wire.to = "login" =>
              /\ wire.verb = "POST"
              /\ wire.url = StripSlashes(url) \o <<"/", "login">>
              /\ \A k \in {"username", "userkey", "apikey"} :
                     wire.body[k] = (IF auth[k] = Undefined THEN Absent ELSE auth[k]))
    /\ [][auth' = auth]_vars

\* The login request of a re-authentication carries the three credentials.
C26_Witness ==
    /\ wire.to = "login"
    /\ trace[1] = <<"req", "reqErr", "auth", "login">>
    /\ wire.body = [username |-> "user", userkey |-> "ukey", apikey |-> "key"]

\* C27: when every successful login response carries a non-empty token, a
\* token is held from the first successful login on: no step takes the
\* token away.
C27_TokenNeverCleared ==
    /\ [](loginRes # Null => Truthy(token))
    /\ [][Truthy(token) => Truthy(token')]_vars

\* A token is still held after a first attempt and the re-authentication
\* that followed it have both failed.
C27_Witness ==
    \E c \in Calls :
        /\ Endpoint(c) /\ Settled(c) /\ trace[c] = ReauthFailed
        /\ Truthy(token)

\* C28: the token held is the one of the latest successful login response,
\* and a target request carries that token, whichever token the login of the
\* call that builds it was answered with.
C28_LastWriterWins ==
    /\ [](loginRes # Null => token = loginRes)
    /\ [](\A c \in Calls : TargetSent(c) => wire.auth = "Bearer " \o loginRes)
    /\ [][\A c \in Calls :
            (pc[c] = "login" /\ trace'[c] = Append(trace[c], "authOk")) =>
                (token' = OwnToken(c) /\ loginRes' = OwnToken(c))]_vars

\* Call 1, whose login was answered with t1, sends its target request with
\* t2, which a later login installed.
C28_Witness ==
    /\ TargetSent(1) /\ pc[1] = "final"
    /\ OwnToken(1) = "t1"
    /\ wire.auth = "Bearer t2"

\* C29: a call whose first attempt fails sends a login request before it
\* sends anything else, whether or not the token held is still the one its
\* first attempt was built with.
C29_ReauthUnconditional ==
    [][\A c \in Calls :
          (pc[c] = "try" /\ pc'[c] # "try" /\ last'[c].form = "error") =>
              /\ pc'[c] = "login"
              /\ wire'.to = "login" /\ wire'.call = c
              /\ trace'[c] = <<"req", "reqErr", "auth", "login">>
              /\ built'[c] = built[c]]_vars

\* The first attempt of call 1 was built with t1, t2 has been installed
\* since, and call 1 has a login request of its own in flight.
C29_Witness ==
    /\ pc[1] = "login" /\ trace[1] = <<"req", "reqErr", "auth", "login">>
    /\ built[1] = "t1" /\ token = "t2"
    /\ wire.to = "login" /\ wire.call = 1

\* C30: a login request carries Authorization 'Bearer ' followed by the
\* token held as it is built, and no Authorization when none is held.
C30_LoginCarriesToken ==
    wire.to = "login" =>
        wire.auth = (IF Truthy(token) THEN "Bearer " \o token ELSE Absent)

\* authenticate() is called while t1 is held: its login request carries t1.
C30_Witness ==
    \E c \in Calls :
        /\ wire.to = "login" /\ wire.call = c
        /\ kind[c] = "authenticate" /\ hadToken[c]
        /\ wire.auth = "Bearer t1"

\* C31: a login answered 2xx without a token, or with an empty one, leaves
\* no usable token held; authenticate() resolves all the same, and an
\* endpoint call goes on to its target request. A target request built
\* after a login while no usable token is held carries no Authorization and
\* is the call's last attempt: the call settles on its outcome. An endpoint
\* call that starts while no usable token is held logs in first.
C31_LoginWithoutToken ==
    [][\A c \in Calls :
          /\ (/\ pc[c] = "login"
              /\ trace'[c] = Append(trace[c], "authOk")
              /\ ~Truthy(loginRes')) =>
                 /\ ~Truthy(token')
                 /\ kind[c] = "authenticate" =>
                        (pc'[c] = "done" /\ out'[c].st = "resolved")
                 /\ kind[c] = "endpoint" => pc'[c] = "authed"
          /\ (pc[c] = "authed" /\ pc'[c] # "authed" /\ ~Truthy(token)) =>
                 /\ pc'[c] = "final"
                 /\ wire'.to = "target" /\ wire'.call = c
                 /\ wire'.auth = Absent
          /\ (pc[c] = "final" /\ pc'[c] # "final") => pc'[c] = "done"
          /\ (pc[c] = "idle" /\ pc'[c] # "idle" /\ kind'[c] = "endpoint"
              /\ ~Truthy(token)) =>
                 /\ trace'[c] = <<"auth", "login">>
                 /\ wire'.to = "login" /\ wire'.call = c]_vars

\* The login of an endpoint call was answered with an empty token: its
\* target request is in flight without Authorization.
C31_Witness ==
    \E c \in Calls :
        /\ TargetSent(c) /\ Endpoint(c)
        /\ trace[c] = <<"auth", "login", "authOk", "req">>
        /\ loginRes = "" /\ ~Truthy(token)
        /\ wire.auth = Absent

\* A call whose login carried no token field has settled, and a later
\* endpoint call has a login request of its own in flight.
C31_WitnessLater ==
    \E c, d \in Calls :
        /\ Settled(c) /\ Endpoint(c) /\ trace[c] = AuthThenOk
        /\ loginRes = Undefined /\ token = Undefined
        /\ Endpoint(d) /\ pc[d] = "login" /\ trace[d] = <<"auth", "login">>

\* authenticate() has resolved on a login answered without a token field.
C31_WitnessAuthenticate ==
    \E c \in Calls :
        /\ Settled(c) /\ kind[c] = "authenticate"
        /\ out[c].st = "resolved" /\ token = Undefined

\* The language a call works with: the one of its opts when they have the
\* key, else the default of the constructor.
LanguageOf(c) ==
    IF callOpts[c].language # Absent THEN callOpts[c].language ELSE opts.language

\* C32: the target request of a method that reads opts.language always has
\* Accept-Language set. For getSerieHead it is the language the call works
\* with, as it is, null or undefined included; for the other methods it is
\* that language when it is a non-empty string and the empty string when it
\* is not.
C32_AcceptLanguage ==
    \A c \in Calls :
        (TargetSent(c) /\ method[c] \in ReadsLanguage) =>
            /\ wire.lang # Absent
            /\ method[c] = "getSerieHead" => wire.lang = LanguageOf(c)
            /\ method[c] \in LanguageMethods =>
                   wire.lang = (IF Truthy(LanguageOf(c)) THEN LanguageOf(c) ELSE "")

\* getSerie is called without a language on a client built without one:
\* its target request carries an empty Accept-Language.
C32_Witness ==
    \E c \in Calls :
        /\ TargetSent(c) /\ method[c] = "getSerie"
        /\ callOpts[c].language = Absent /\ opts.language = Null
        /\ wire.lang = ""

\* getSerieHead is called without a language on a client built without
\* one: null is what it sets as Accept-Language.
C32_WitnessHead ==
    \E c \in Calls :
        /\ TargetSent(c) /\ method[c] = "getSerieHead"
        /\ callOpts[c].language = Absent /\ opts.language = Null
        /\ wire.lang = Null

\* getSerie is called with 'fr' on a client built with 'en': its target
\* request carries 'fr'.
C32_WitnessGiven ==
    \E c \in Calls :
        /\ TargetSent(c) /\ method[c] = "getSerie"
        /\ callOpts[c].language = "fr" /\ opts.language = "en"
        /\ wire.lang = "fr"

\* The epoch seconds of a time argument: the milliseconds of a Date divided
\* by 1000, a number as it is, and nothing for an argument left out.
Seconds(x) == IF x.type = "date" THEN NumberOf(x.k) ELSE x

\* C33, as stated: every target request of getUpdatedQuery has in its query
\* the epoch seconds of fromTime and of toTime, whatever Date or number was
\* given, and no toTime when none was given. It fails for the Date of the
\* epoch itself.
C33_AsStated ==
    \A c \in Calls :
        (TargetSent(c) /\ method[c] = "getUpdatedQuery") =>
            /\ wire.query.fromTime = Seconds(args[c].fromTime)
            /\ wire.query.toTime = Seconds(args[c].toTime)

\* What holds of the query: the epoch seconds of every number, of every
\* Date but the epoch, and no toTime when none was given; the Date of the
\* epoch is put in the query as the Date it is.
C33_SecondsExceptEpoch ==
    \A c \in Calls :
        (TargetSent(c) /\ method[c] = "getUpdatedQuery") =>
            /\ wire.query.fromTime =
                   (IF args[c].fromTime = DateOf(0) THEN DateOf(0)
                    ELSE Seconds(args[c].fromTime))
            /\ wire.query.toTime =
                   (IF args[c].toTime = DateOf(0) THEN DateOf(0)
                    ELSE Seconds(args[c].toTime))

\* getUpdatedQuery is called with the Date of 1500 ms and no toTime: its
\* target request asks for fromTime 1.5 and no toTime.
C33_WitnessDate ==
    \E c \in Calls :
        /\ TargetSent(c) /\ method[c] = "getUpdatedQuery"
        /\ args[c] = [fromTime |-> DateOf(1500), toTime |-> UndefinedTime]
        /\ wire.query = [fromTime |-> NumberOf(1500), toTime |-> UndefinedTime]

\* getUpdatedQuery is called with the Date of the epoch: its target request
\* has that Date as fromTime.
C33_WitnessEpoch ==
    \E c \in Calls :
        /\ TargetSent(c) /\ method[c] = "getUpdatedQuery"
        /\ args[c].fromTime = DateOf(0)
        /\ wire.query.fromTime = DateOf(0)

====
